---- MODULE Spec2Model ----
(***************************************************************************)
(* Model of the project store of video-clipper2 (the React provider        *)
(* ProjectProvider): the in/out mark state machine, the clip collection    *)
(* and selection set, the event metadata, and the asynchronous save/load   *)
(* protocol against the file-dialog and file I/O collaborators.            *)
(*                                                                         *)
(* Every synchronous store operation runs to completion on the state of    *)
(* the latest render, so it is one atomic action.  saveProject and         *)
(* loadProject are async functions: each is a process that closes over the *)
(* state of the render in which it was invoked and takes one step per      *)
(* awaited collaborator call.                                              *)
(*                                                                         *)
(* playbackSpeed is a store field that no modelled operation reads; it is  *)
(* left out.                                                               *)
(***************************************************************************)
EXTENDS Integers, Sequences, FiniteSets, TLC

\* ------------------------------------------------------------------ bounds
MaxTime == 2        \* playback positions are 0..MaxTime
MaxClock == 1       \* wall-clock instants are 0..MaxClock
MaxClips == 2       \* addClipFromMarks / saveClipFromDialog stop growing the list here
MaxIds == 3         \* ids the generator hands out
MaxSpan == 3        \* clipsOverlap is applied to clips within 0..MaxSpan
MaxSort == 4        \* sortClipsByTime is applied to arrays of up to MaxSort clips

\* --------------------------------------------------------------- constants
NULL == -1          \* the null of a number | null field

Times == 0..MaxTime
Marks == Times \cup {NULL}

NullPath == "null"                       \* the null of a string | null field
VideoPaths == {"a.mp4"}                  \* what the open-video dialog returns
ProjectPaths == {"p.json"}               \* what the save-project dialog returns

GenIds == <<"g1", "g2", "g3", "g4", "g5", "g6">>
DefaultNames == <<"Clip 1", "Clip 2", "Clip 3", "Clip 4", "Clip 5", "Clip 6">>

\* ------------------------------------------------------------- JS values
\* A JavaScript value is a record tagged with its type.  Objects map property
\* names to values; a property that is not in the domain is absent.
Undef == [t |-> "undefined"]
JNull == [t |-> "null"]
Str(s) == [t |-> "string", s |-> s]
Num(n) == [t |-> "number", n |-> n]
Bool(b) == [t |-> "boolean", b |-> b]
Arr(a) == [t |-> "array", a |-> a]
Obj(o) == [t |-> "object", o |-> o]
\* new Date() at instant ms; InvalidDate is a Date whose time value is NaN.
DateOf(ms) == [t |-> "date", valid |-> TRUE, ms |-> ms]
InvalidDate == [t |-> "date", valid |-> FALSE, ms |-> 0]

\* obj.k
Get(v, k) == IF v.t = "object" /\ k \in DOMAIN v.o THEN v.o[k] ELSE Undef

\* !!v
Truthy(v) ==
  CASE v.t = "undefined" -> FALSE
    [] v.t = "null" -> FALSE
    [] v.t = "string" -> v.s # ""
    [] v.t = "number" -> v.n # 0
    [] v.t = "boolean" -> v.b
    [] OTHER -> TRUE

\* The own properties a spread copies: none for a value that is not an object.
Props(v) == IF v.t = "object" THEN v.o ELSE <<>>

\* { ...a, ...b }
Spread(a, b) ==
  Obj([k \in DOMAIN Props(a) \cup DOMAIN Props(b) |->
         IF k \in DOMAIN Props(b) THEN Props(b)[k] ELSE Props(a)[k]])

\* a || b
OrElse(a, b) == IF Truthy(a) THEN a ELSE b


\* ------------------------------------------------------------ Date / JSON
\* Date.prototype.toISOString() of instant ms, and the instant an ISO string denotes.
IsoStrings == <<"1970-01-01T00:00:00.000Z", "1970-01-01T00:00:00.001Z",
                "1970-01-01T00:00:00.002Z", "1970-01-01T00:00:00.003Z">>
ToISOString(ms) == IsoStrings[ms + 1]
ParseDate(s) ==
  IF \E i \in 1..Len(IsoStrings) : IsoStrings[i] = s
  THEN DateOf((CHOOSE i \in 1..Len(IsoStrings) : IsoStrings[i] = s) - 1)
  ELSE InvalidDate

\* new Date(v)
NewDate(v) ==
  CASE v.t = "date" -> v
    [] v.t = "string" -> ParseDate(v.s)
    [] v.t = "number" -> DateOf(v.n)
    [] v.t = "null" -> DateOf(0)
    [] v.t = "boolean" -> DateOf(IF v.b THEN 1 ELSE 0)
    [] OTHER -> InvalidDate

\* v instanceof Date ? v : new Date(v)
AsDate(v) == IF v.t = "date" THEN v ELSE NewDate(v)

\* JSON.parse(JSON.stringify(v)): what a reader of the written text gets back.
\* A Date becomes its ISO string (null when invalid), a property whose value
\* is undefined is dropped, an undefined array element becomes null.
RECURSIVE ToJSON(_)
ToJSON(v) ==
  CASE v.t = "date" -> IF v.valid THEN Str(ToISOString(v.ms)) ELSE JNull
    [] v.t = "object" ->
         Obj([k \in {j \in DOMAIN v.o : v.o[j].t # "undefined"} |-> ToJSON(v.o[k])])
    [] v.t = "array" ->
         Arr([i \in 1..Len(v.a) |-> IF v.a[i].t = "undefined" THEN JNull ELSE ToJSON(v.a[i])])
    [] OTHER -> v

\* ------------------------------------------------------------ project file
PROJECT_FILE_VERSION == "2.0.0"

\* typeof v === "object" && v !== null
IsNonNullObject(v) == v.t \in {"object", "array", "date"}

\* A validator that does not look at outSeconds.
IsValidClipShape_NoOut(clip) ==
  /\ IsNonNullObject(clip)
  /\ Get(clip, "id").t = "string"
  /\ Get(clip, "name").t = "string"
  /\ Get(clip, "inSeconds").t = "number"

IsValidClipShape(clip) ==
  /\ IsNonNullObject(clip)
  /\ Get(clip, "id").t = "string"
  /\ Get(clip, "name").t = "string"
  /\ Get(clip, "inSeconds").t = "number"
  /\ Get(clip, "outSeconds").t = "number"

isValidProjectData(data) ==
  /\ IsNonNullObject(data)
  /\ Get(data, "version").t = "string"
  /\ Get(data, "appVersion").t = "string"
  /\ Get(data, "created").t = "string"
  /\ Get(data, "modified").t = "string"
  /\ IsNonNullObject(Get(data, "videoSource"))
  /\ Get(Get(data, "videoSource"), "path").t = "string"
  /\ Get(data, "clips").t = "array"
  /\ \A i \in 1..Len(Get(data, "clips").a) : IsValidClipShape(Get(data, "clips").a[i])

\* A version check that lets every version through.
isSupportedVersion_Any(version) == TRUE

isSupportedVersion(version) == version = Str(PROJECT_FILE_VERSION)

\* What a file holds: JSON text (kept as the value it parses to), text that
\* is not JSON, the empty string, or no file at all.  orig is history: the
\* project state a written document was built from, null for any other file.
FileJson(v) == [kind |-> "json", value |-> v, orig |-> JNull]
FileText == [kind |-> "text", value |-> JNull, orig |-> JNull]
FileEmpty == [kind |-> "empty", value |-> JNull, orig |-> JNull]
NoFile == [kind |-> "none", value |-> JNull, orig |-> JNull]
\* The file a successful writeProject leaves.
Written(v, o) == [kind |-> "json", value |-> v, orig |-> o]


\* Files the user can pick in the open-project dialog besides the ones this
\* program wrote: their contents are fixed.
DocClip(id, name, inS, outS, ms) ==
  Obj([id |-> Str(id), name |-> Str(name), inSeconds |-> Num(inS), outSeconds |-> Num(outS),
       createdOn |-> Str(ToISOString(ms)), modifiedOn |-> Str(ToISOString(ms))])

\* An event as found in a hand-edited file: its only official has no name.
ExtEvent ==
  Obj([date |-> Str(ToISOString(0)), gender |-> Str("girls"), ageLevel |-> Str("JV"),
       sport |-> Str("basketball"), officiatingCrew |-> Arr(<<Obj([name |-> Str("")])>>),
       createdOn |-> Str(ToISOString(0)), modifiedOn |-> Str(ToISOString(0))])

DocHeader(version, video) ==
  [version |-> Str(version), appVersion |-> Str("1.0.0"),
   created |-> Str(ToISOString(0)), modified |-> Str(ToISOString(0)),
   videoSource |-> Obj([path |-> Str(video)])]

ExternalFiles ==
  [empty |-> FileEmpty,
   text |-> FileText,
   bad |-> FileJson(Obj([version |-> Str("1.0.0"), clips |-> JNull])),
   old |-> FileJson(Spread(Obj(DocHeader("1.0.0", "v.mp4")), Obj([clips |-> Arr(<<>>)]))),
   ext |-> FileJson(Spread(Obj(DocHeader(PROJECT_FILE_VERSION, "v.mp4")),
                           Obj([event |-> ExtEvent,
                                clips |-> Arr(<<DocClip("c1", "Travel", 0, 2, 0)>>)]))),
   bare |-> FileJson(Spread(Obj(DocHeader(PROJECT_FILE_VERSION, "w.mp4")),
                            Obj([clips |-> Arr(<<>>)]))),
   rev |-> FileJson(Spread(Obj(DocHeader(PROJECT_FILE_VERSION, "v.mp4")),
                           Obj([clips |-> Arr(<<DocClip("c1", "Travel", 2, 0, 0)>>)])))]
ExternalPaths == {"empty", "text", "bad", "old", "ext", "bare", "rev"}
OpenPaths == ProjectPaths \cup ExternalPaths

Procs == {1, 2}
Idle == [kind |-> "idle", pc |-> "idle", path |-> NullPath, data |-> JNull,
         closedPath |-> NullPath, orig |-> JNull]

VARIABLES
  clips,               \* Clip[]: the ordered clip collection
  selectedClipIds,     \* Set<string>
  markInTime,          \* number | null
  markOutTime,         \* number | null
  currentTime,         \* number
  videoSourcePath,     \* string | null
  currentProjectPath,  \* string | null
  isDirty,             \* boolean
  event,               \* Event | null
  clipDialogOpen,      \* boolean
  clipBeingEdited,     \* Clip | null
  now,                 \* the latest reading of the wall clock
  nextId,              \* index of the next id uniqueId() returns
  procs,               \* the saveProject / loadProject calls in flight
  disk,                \* contents of the files the project dialogs can name
  last,                \* history: the operation that produced this state
  scen                 \* history: progress of markIn(t1); markOut(t2); addClipFromMarks()

store == <<clips, selectedClipIds, markInTime, markOutTime, currentTime,
           videoSourcePath, currentProjectPath, isDirty, event,
           clipDialogOpen, clipBeingEdited>>
vars == <<clips, selectedClipIds, markInTime, markOutTime, currentTime,
          videoSourcePath, currentProjectPath, isDirty, event,
          clipDialogOpen, clipBeingEdited, now, nextId, procs, disk, last, scen>>

\* ------------------------------------------------------------------ helpers
NoScen == [stage |-> 0, t1 |-> NULL, t2 |-> NULL, clips0 |-> <<>>]

\* uniqueId(): time + random suffix, taken to be fresh.
uniqueId == GenIds[nextId]

\* --------------------------------------------------------------------- Init
Init ==
  /\ clips = <<>>
  /\ selectedClipIds = {}
  /\ markInTime = NULL
  /\ markOutTime = NULL
  /\ currentTime = 0
  /\ videoSourcePath = NullPath
  /\ currentProjectPath = NullPath
  /\ isDirty = FALSE
  /\ event = JNull
  /\ clipDialogOpen = FALSE
  /\ clipBeingEdited = JNull
  /\ now = 0
  /\ nextId = 1
  /\ procs = [p \in Procs |-> Idle]
  /\ disk = [f \in OpenPaths |-> IF f \in ExternalPaths THEN ExternalFiles[f] ELSE NoFile]
  /\ last = [op |-> "init", t |-> NULL, flag |-> FALSE]
  /\ scen = NoScen

\* ------------------------------------------------------------ environment
\* new Date(): the wall clock never runs backwards, so a reading is at or
\* after the latest earlier reading (now); the reading becomes the new now.
Instants == now..MaxClock

\* The player reports a new playback position.
SetCurrentTime(t) ==
  /\ currentTime' = t
  /\ last' = [op |-> "setCurrentTime", t |-> t, flag |-> FALSE]
  /\ scen' = NoScen
  /\ UNCHANGED <<clips, selectedClipIds, markInTime, markOutTime,
                 videoSourcePath, currentProjectPath, isDirty, event,
                 clipDialogOpen, clipBeingEdited, now, nextId, procs, disk>>

\* ------------------------------------------------------ mark state machine
\* time is a playback position, or NULL when markIn() is called without one.
TimeToUse(time) == IF time # NULL THEN time ELSE currentTime

\* A markIn that never moves the out-mark.
OutAfterMarkIn_Kept(timeToUse) == markOutTime

\* A markIn that moves every existing out-mark to the new in-mark.
OutAfterMarkIn_Always(timeToUse) == IF markOutTime # NULL THEN timeToUse ELSE markOutTime

\* The out-mark markIn leaves: raised to the new in-mark when that is later.
OutAfterMarkIn(timeToUse) ==
  IF markOutTime # NULL /\ timeToUse > markOutTime THEN timeToUse ELSE markOutTime

MarkIn(time) ==
  LET timeToUse == TimeToUse(time) IN
  /\ markInTime' = timeToUse
  /\ markOutTime' = OutAfterMarkIn(timeToUse)
  /\ last' = [op |-> "markIn", t |-> timeToUse,
              flag |-> (markOutTime # NULL /\ timeToUse > markOutTime)]
  /\ scen' = IF markInTime = NULL /\ markOutTime = NULL
             THEN [stage |-> 1, t1 |-> timeToUse, t2 |-> NULL, clips0 |-> clips]
             ELSE NoScen
  /\ UNCHANGED <<clips, selectedClipIds, currentTime, videoSourcePath,
                 currentProjectPath, isDirty, event, clipDialogOpen,
                 clipBeingEdited, now, nextId, procs, disk>>

\* A markOut that never moves the in-mark.
InAfterMarkOut_Kept(timeToUse) == markInTime

\* The in-mark markOut leaves: lowered to the new out-mark when that is earlier.
InAfterMarkOut(timeToUse) ==
  IF markInTime # NULL /\ timeToUse < markInTime THEN timeToUse ELSE markInTime

MarkOut(time) ==
  LET timeToUse == TimeToUse(time) IN
  /\ markOutTime' = timeToUse
  /\ markInTime' = InAfterMarkOut(timeToUse)
  /\ last' = [op |-> "markOut", t |-> timeToUse,
              flag |-> (markInTime # NULL /\ timeToUse < markInTime)]
  /\ scen' = IF scen.stage = 1 /\ scen.t1 < timeToUse
             THEN [scen EXCEPT !.stage = 2, !.t2 = timeToUse]
             ELSE NoScen
  /\ UNCHANGED <<clips, selectedClipIds, currentTime, videoSourcePath,
                 currentProjectPath, isDirty, event, clipDialogOpen,
                 clipBeingEdited, now, nextId, procs, disk>>

\* An early return that lets a zero-length interval through.
MarksUnusable_Strict == markInTime = NULL \/ markOutTime = NULL \/ markOutTime < markInTime

\* The early return of addClipFromMarks.
MarksUnusable == markInTime = NULL \/ markOutTime = NULL \/ markOutTime <= markInTime

\* A clip built with the marks the wrong way round.
NewClip_Swapped(at) == Obj([id |-> Str(uniqueId),
                            name |-> Str(DefaultNames[Len(clips) + 1]),
                            inSeconds |-> Num(markOutTime),
                            outSeconds |-> Num(markInTime),
                            createdOn |-> DateOf(at),
                            modifiedOn |-> DateOf(at)])

\* A clip named after the number of ids handed out, not the clip count.
NewClip_NameById(at) == Obj([id |-> Str(uniqueId),
                             name |-> Str(DefaultNames[nextId]),
                             inSeconds |-> Num(markInTime),
                             outSeconds |-> Num(markOutTime),
                             createdOn |-> DateOf(at),
                             modifiedOn |-> DateOf(at)])

NewClip(at) == Obj([id |-> Str(uniqueId),
                    name |-> Str(DefaultNames[Len(clips) + 1]),
                    inSeconds |-> Num(markInTime),
                    outSeconds |-> Num(markOutTime),
                    createdOn |-> DateOf(at),
                    modifiedOn |-> DateOf(at)])

AddClipFromMarks ==
  \/ /\ MarksUnusable
     /\ last' = [op |-> "addClipFromMarks", t |-> NULL, flag |-> FALSE]
     /\ scen' = IF scen.stage = 2 THEN [scen EXCEPT !.stage = 3] ELSE NoScen
     /\ UNCHANGED <<store, now, nextId, procs, disk>>
  \/ /\ ~MarksUnusable
     /\ Len(clips) < MaxClips
     /\ nextId <= MaxIds
     /\ \E at \in Instants : now' = at /\ clips' = Append(clips, NewClip(at))
     /\ isDirty' = TRUE
     /\ markInTime' = NULL
     /\ markOutTime' = NULL
     /\ nextId' = nextId + 1
     /\ last' = [op |-> "addClipFromMarks", t |-> NULL, flag |-> TRUE]
     /\ scen' = IF scen.stage = 2 THEN [scen EXCEPT !.stage = 3] ELSE NoScen
     /\ UNCHANGED <<selectedClipIds, currentTime, videoSourcePath,
                    currentProjectPath, event, clipDialogOpen,
                    clipBeingEdited, procs, disk>>

\* A clearMarks that forgets the out-mark.
ClearMarks_InOnly ==
  /\ markInTime' = NULL
  /\ markOutTime' = markOutTime
  /\ last' = [op |-> "clearMarks", t |-> NULL,
              flag |-> (markInTime # NULL /\ markOutTime # NULL)]
  /\ scen' = NoScen
  /\ UNCHANGED <<clips, selectedClipIds, currentTime, videoSourcePath,
                 currentProjectPath, isDirty, event, clipDialogOpen,
                 clipBeingEdited, now, nextId, procs, disk>>

ClearMarks ==
  /\ markInTime' = NULL
  /\ markOutTime' = NULL
  /\ last' = [op |-> "clearMarks", t |-> NULL,
              flag |-> (markInTime # NULL /\ markOutTime # NULL)]
  /\ scen' = NoScen
  /\ UNCHANGED <<clips, selectedClipIds, currentTime, videoSourcePath,
                 currentProjectPath, isDirty, event, clipDialogOpen,
                 clipBeingEdited, now, nextId, procs, disk>>


\* ------------------------------------------------- deleteClip, updateClip
\* A delete that leaves the selection alone.
SelectionAfterDelete_Kept(id) == selectedClipIds

\* const next = new Set(selectedClipIds); next.delete(id)
SelectionAfterDelete(id) == selectedClipIds \ {id}

\* clips.filter((clip) => clip.id !== id)
WithoutId(id) == SelectSeq(clips, LAMBDA clip : Get(clip, "id") # Str(id))

DeleteClip(id) ==
  /\ clips' = WithoutId(id)
  /\ isDirty' = TRUE
  /\ selectedClipIds' = SelectionAfterDelete(id)
  /\ last' = [op |-> "deleteClip", id |-> id, flag |-> id \in selectedClipIds,
              removed |-> Len(clips) - Len(WithoutId(id))]
  /\ scen' = NoScen
  /\ UNCHANGED <<markInTime, markOutTime, currentTime, videoSourcePath,
                 currentProjectPath, event, clipDialogOpen, clipBeingEdited,
                 now, nextId, procs, disk>>

\* An update that puts the partial in the clip's place.
UpdatedClip_Replaced(clip, updates) == updates

\* { ...clip, ...updates }
UpdatedClip(clip, updates) == Spread(clip, updates)

\* updateClip(id, updates), called at instant at; it does not read the clock.
UpdateClip(id, updates, at) ==
  /\ at \in Instants
  /\ now' = at
  /\ clips' = [i \in 1..Len(clips) |->
                 IF Get(clips[i], "id") = Str(id)
                 THEN UpdatedClip(clips[i], updates) ELSE clips[i]]
  /\ isDirty' = TRUE
  /\ last' = [op |-> "updateClip", id |-> id, updates |-> updates, at |-> at]
  /\ scen' = NoScen
  /\ UNCHANGED <<selectedClipIds, markInTime, markOutTime, currentTime, videoSourcePath,
                 currentProjectPath, event, clipDialogOpen, clipBeingEdited,
                 nextId, procs, disk>>

\* Partial clips passed to updateClip: a new name (the inline rename), or a
\* new id.
Renamed == Obj([name |-> Str("Renamed")])
Reidentified == Obj([id |-> Str("d1")])
ClipUpdates == {Renamed, Reidentified}
\* Ids passed to deleteClip and updateClip.
ClipIds == {"g1", "g2", "d1"}

\* ------------------------------------------------------ selection, source
\* A toggle that selects one clip at a time.
ToggleClipSelection_Single(id) ==
  /\ selectedClipIds' = IF id \in selectedClipIds THEN {} ELSE {id}
  /\ last' = [op |-> "toggleClipSelection", id |-> id]
  /\ scen' = NoScen
  /\ UNCHANGED <<clips, markInTime, markOutTime, currentTime, videoSourcePath,
                 currentProjectPath, isDirty, event, clipDialogOpen,
                 clipBeingEdited, now, nextId, procs, disk>>

ToggleClipSelection(id) ==
  /\ selectedClipIds' = IF id \in selectedClipIds
                        THEN selectedClipIds \ {id} ELSE selectedClipIds \cup {id}
  /\ last' = [op |-> "toggleClipSelection", id |-> id]
  /\ scen' = NoScen
  /\ UNCHANGED <<clips, markInTime, markOutTime, currentTime, videoSourcePath,
                 currentProjectPath, isDirty, event, clipDialogOpen,
                 clipBeingEdited, now, nextId, procs, disk>>

\* ClipList: the checkbox of the i-th listed clip is clicked.
handleSelect(i) ==
  /\ i \in 1..Len(clips)
  /\ ToggleClipSelection(Get(clips[i], "id").s)

\* The selected clips listed last to first.
selectedClips_Reversed ==
  LET picked == SelectSeq(clips, LAMBDA clip : Get(clip, "id") \in {Str(id) : id \in selectedClipIds})
  IN [i \in 1..Len(picked) |-> picked[Len(picked) + 1 - i]]

\* The derived value selectedClips of the current render.
selectedClips ==
  SelectSeq(clips, LAMBDA clip : Get(clip, "id") \in {Str(id) : id \in selectedClipIds})

\* An addSource that does not mark the project as changed.
AddSource_Clean(path) ==
  /\ videoSourcePath' = path
  /\ isDirty' = isDirty
  /\ last' = [op |-> "addSource", path |-> path]
  /\ scen' = NoScen
  /\ UNCHANGED <<clips, selectedClipIds, markInTime, markOutTime, currentTime,
                 currentProjectPath, event, clipDialogOpen,
                 clipBeingEdited, now, nextId, procs, disk>>

AddSource(path) ==
  /\ videoSourcePath' = path
  /\ isDirty' = TRUE
  /\ last' = [op |-> "addSource", path |-> path]
  /\ scen' = NoScen
  /\ UNCHANGED <<clips, selectedClipIds, markInTime, markOutTime, currentTime,
                 currentProjectPath, event, clipDialogOpen,
                 clipBeingEdited, now, nextId, procs, disk>>

\* ------------------------------------------------------------------- event
\* A new event whose gender defaults to girls.
NewEvent_Girls(updates, at) ==
  Obj([date |-> OrElse(Get(updates, "date"), DateOf(at)),
       gender |-> OrElse(Get(updates, "gender"), Str("girls")),
       ageLevel |-> OrElse(Get(updates, "ageLevel"), Str("Varsity")),
       sport |-> OrElse(Get(updates, "sport"), Str("basketball")),
       eventName |-> Get(updates, "eventName"),
       location |-> Get(updates, "location"),
       homeTeam |-> Get(updates, "homeTeam"),
       awayTeam |-> Get(updates, "awayTeam"),
       officiatingCrew |-> OrElse(Get(updates, "officiatingCrew"), Arr(<<>>)),
       videoLink |-> Get(updates, "videoLink"),
       notes |-> Get(updates, "notes"),
       createdOn |-> DateOf(at),
       modifiedOn |-> DateOf(at)])

\* The event updateEvent builds when none exists.
NewEvent(updates, at) ==
  Obj([date |-> OrElse(Get(updates, "date"), DateOf(at)),
       gender |-> OrElse(Get(updates, "gender"), Str("boys")),
       ageLevel |-> OrElse(Get(updates, "ageLevel"), Str("Varsity")),
       sport |-> OrElse(Get(updates, "sport"), Str("basketball")),
       eventName |-> Get(updates, "eventName"),
       location |-> Get(updates, "location"),
       homeTeam |-> Get(updates, "homeTeam"),
       awayTeam |-> Get(updates, "awayTeam"),
       officiatingCrew |-> OrElse(Get(updates, "officiatingCrew"), Arr(<<>>)),
       videoLink |-> Get(updates, "videoLink"),
       notes |-> Get(updates, "notes"),
       createdOn |-> DateOf(at),
       modifiedOn |-> DateOf(at)])

\* A merge that stamps createdOn as well.
MergedEvent_Restamped(updates, at) ==
  Spread(Spread(event, updates), Obj([createdOn |-> DateOf(at), modifiedOn |-> DateOf(at)]))

\* The event updateEvent builds from an existing one.
MergedEvent(updates, at) == Spread(Spread(event, updates), Obj([modifiedOn |-> DateOf(at)]))

UpdateEvent(updates, at) ==
  /\ at \in Instants
  /\ now' = at
  /\ event' = IF Truthy(event) THEN MergedEvent(updates, at) ELSE NewEvent(updates, at)
  /\ isDirty' = TRUE
  /\ last' = [op |-> "updateEvent", updates |-> updates, existed |-> Truthy(event)]
  /\ scen' = NoScen
  /\ UNCHANGED <<clips, selectedClipIds, markInTime, markOutTime, currentTime,
                 videoSourcePath, currentProjectPath, clipDialogOpen,
                 clipBeingEdited, nextId, procs, disk>>

\* What the event form passes: every field, the crew filtered to named officials.
FormEvent ==
  Obj([date |-> DateOf(0), gender |-> Str("girls"), ageLevel |-> Str("JV"),
       sport |-> Str("basketball"), eventName |-> Undef, location |-> Undef,
       homeTeam |-> Undef, awayTeam |-> Undef,
       officiatingCrew |-> Arr(<<Obj([name |-> Str("Ann"), position |-> Str("")])>>),
       videoLink |-> Undef, notes |-> Undef])
\* A partial update naming one field.
NameOnly == Obj([eventName |-> Str("Final")])
EventUpdates == {FormEvent, NameOnly}
\* A partial update naming a field that has a default.
SportOnly == Obj([sport |-> Str("soccer")])

\* ------------------------------------------------------------- loadProject
\* A slot that is free only while no other call is in flight.
FreeSlot_Serialized(p) == \A q \in Procs : procs[q] = Idle /\ p <= q

\* The lowest free slot takes the next call.
FreeSlot(p) == procs[p] = Idle /\ \A q \in Procs : q < p => procs[q] # Idle
AtPc(p, kind, pc) == procs[p].kind = kind /\ procs[p].pc = pc

FileAt(path) == IF path \in OpenPaths THEN disk[path] ELSE NoFile

\* What readProject resolves to for a path: a failure, or the file's content.
ReadResult(path, ok) == [success |-> ok, content |-> IF ok THEN FileAt(path) ELSE NoFile]

\* Checks that let every parsed value through as a project.
LoadCheck_NoStructure(result) ==
  IF ~result.success \/ result.content.kind = "empty" THEN "readFailed"
  ELSE IF result.content.kind # "json" THEN "invalidJson"
  ELSE "ok"

\* Checks that look at the version before the structure.
LoadCheck_VersionFirst(result) ==
  IF ~result.success \/ result.content.kind = "empty" THEN "readFailed"
  ELSE IF result.content.kind # "json" THEN "invalidJson"
  ELSE IF ~isSupportedVersion(Get(result.content.value, "version")) THEN "unsupportedVersion"
  ELSE IF ~isValidProjectData(result.content.value) THEN "invalidStructure"
  ELSE "ok"

\* The checks between the read and the fileExists call, in the code's order.
LoadCheck(result) ==
  IF ~result.success \/ result.content.kind = "empty" THEN "readFailed"
  ELSE IF result.content.kind # "json" THEN "invalidJson"
  ELSE IF ~isValidProjectData(result.content.value) THEN "invalidStructure"
  ELSE IF ~isSupportedVersion(Get(result.content.value, "version")) THEN "unsupportedVersion"
  ELSE "ok"

\* A commit that takes the document's event as it is.
LoadedEvent_Raw(data) == IF Truthy(Get(data, "event")) THEN Get(data, "event") ELSE JNull

\* The event the load commit sets.
LoadedEvent(data) ==
  IF Truthy(Get(data, "event"))
  THEN Spread(Get(data, "event"),
              Obj([date |-> NewDate(Get(Get(data, "event"), "date")),
                   createdOn |-> NewDate(Get(Get(data, "event"), "createdOn")),
                   modifiedOn |-> NewDate(Get(Get(data, "event"), "modifiedOn"))]))
  ELSE JNull

LoadStart(p) ==
  /\ FreeSlot(p)
  /\ procs' = [procs EXCEPT ![p] = [kind |-> "load", pc |-> "dialog",
                                    path |-> NullPath, data |-> JNull,
                                    closedPath |-> NullPath, orig |-> JNull]]
  /\ last' = [op |-> "loadStart", p |-> p, out |-> "pending", ret |-> NullPath]
  /\ scen' = NoScen
  /\ UNCHANGED <<store, now, nextId, disk>>

\* openProject() resolves: a path, or null when the user cancels.
LoadDialogReturn(p, filePath) ==
  /\ AtPc(p, "load", "dialog")
  /\ procs' = [procs EXCEPT ![p] = IF filePath = NullPath THEN Idle
                                   ELSE [@ EXCEPT !.pc = "read", !.path = filePath]]
  /\ last' = [op |-> "loadDialog", p |-> p,
              out |-> IF filePath = NullPath THEN "canceled" ELSE "pending",
              ret |-> NullPath, arg |-> filePath]
  /\ scen' = NoScen
  /\ UNCHANGED <<store, now, nextId, disk>>

\* readProject() resolves; parse, structure and version are checked, then
\* fileExists is called.
LoadReadReturn(p, ok) ==
  LET result == ReadResult(procs[p].path, ok) IN
  /\ AtPc(p, "load", "read")
  /\ ok => FileAt(procs[p].path).kind # "none"
  /\ procs' = [procs EXCEPT ![p] = IF LoadCheck(result) = "ok"
                                   THEN [@ EXCEPT !.pc = "exists", !.data = result.content.value]
                                   ELSE Idle]
  /\ last' = [op |-> "loadRead", p |-> p,
              out |-> IF LoadCheck(result) = "ok" THEN "pending" ELSE LoadCheck(result),
              ret |-> NullPath, arg |-> ok]
  /\ scen' = NoScen
  /\ UNCHANGED <<store, now, nextId, disk>>

\* A load that takes every video to be there.
VideoFound_Always(videoExists) == TRUE

\* if (!videoExists) ... return null
VideoFound(videoExists) == videoExists

\* fileExists() resolves; the load commits when the video is there.
LoadExistsReturn(p, videoExists) ==
  /\ AtPc(p, "load", "exists")
  /\ procs' = [procs EXCEPT ![p] = Idle]
  /\ scen' = NoScen
  /\ IF VideoFound(videoExists)
     THEN /\ clips' = Get(procs[p].data, "clips").a
          /\ videoSourcePath' = Get(Get(procs[p].data, "videoSource"), "path").s
          /\ currentProjectPath' = procs[p].path
          /\ selectedClipIds' = {}
          /\ markInTime' = NULL
          /\ markOutTime' = NULL
          /\ isDirty' = FALSE
          /\ event' = LoadedEvent(procs[p].data)
          /\ last' = [op |-> "loadExists", p |-> p, out |-> "loaded",
                      ret |-> Get(Get(procs[p].data, "videoSource"), "path").s,
                      arg |-> videoExists]
          /\ UNCHANGED <<currentTime, clipDialogOpen, clipBeingEdited, now, nextId, disk>>
     ELSE /\ last' = [op |-> "loadExists", p |-> p, out |-> "videoNotFound",
                      ret |-> NullPath, arg |-> videoExists]
          /\ UNCHANGED <<store, now, nextId, disk>>

\* A catch block that starts the call over instead of ending it.
LoadReject_Again(p) ==
  /\ procs[p].kind = "load"
  /\ procs' = [procs EXCEPT ![p] = [@ EXCEPT !.pc = "dialog", !.path = NullPath,
                                               !.data = JNull]]
  /\ last' = [op |-> "loadReject", p |-> p, out |-> "threw", ret |-> NullPath]
  /\ scen' = NoScen
  /\ UNCHANGED <<store, now, nextId, disk>>

\* An awaited collaborator call of loadProject rejects; the catch block reports it.
LoadReject(p) ==
  /\ procs[p].kind = "load"
  /\ procs' = [procs EXCEPT ![p] = Idle]
  /\ last' = [op |-> "loadReject", p |-> p, out |-> "threw", ret |-> NullPath]
  /\ scen' = NoScen
  /\ UNCHANGED <<store, now, nextId, disk>>


\* ------------------------------------------------------ saveClipFromDialog
IndexOfId(id) ==
  IF \E i \in 1..Len(clips) : Get(clips[i], "id") = id
  THEN CHOOSE i \in 1..Len(clips) :
         Get(clips[i], "id") = id /\ \A j \in 1..(i - 1) : Get(clips[j], "id") # id
  ELSE 0

\* openClipDialog(clip): clip is undefined for a new clip.
OpenClipDialog(clip) ==
  /\ clipBeingEdited' = OrElse(clip, JNull)
  /\ clipDialogOpen' = TRUE
  /\ last' = [op |-> "openClipDialog", clip |-> clip]
  /\ scen' = NoScen
  /\ UNCHANGED <<clips, selectedClipIds, markInTime, markOutTime, currentTime, videoSourcePath,
                 currentProjectPath, isDirty, event, now, nextId, procs, disk>>

\* The dialog is opened on the i-th listed clip.
OpenClipDialogOn(i) ==
  /\ i \in 1..Len(clips)
  /\ OpenClipDialog(clips[i])

\* A saveClipFromDialog that adds the clip whether or not its id is known.
SaveClipFromDialog_Append(clip, at) ==
  /\ at \in Instants
  /\ Len(clips) < MaxClips
  /\ clips' = Append(clips, clip)
  /\ now' = now
  /\ isDirty' = TRUE
  /\ clipDialogOpen' = FALSE
  /\ clipBeingEdited' = JNull
  /\ last' = [op |-> "saveClipFromDialog", existed |-> IndexOfId(Get(clip, "id")) > 0,
              clip |-> clip]
  /\ scen' = NoScen
  /\ UNCHANGED <<selectedClipIds, markInTime, markOutTime, currentTime, videoSourcePath,
                 currentProjectPath, event, nextId, procs, disk>>

SaveClipFromDialog(clip, at) ==
  /\ at \in Instants
  /\ IF IndexOfId(Get(clip, "id")) > 0
     THEN /\ now' = at
          /\ clips' = [clips EXCEPT ![IndexOfId(Get(clip, "id"))] =
                         Spread(clip, Obj([modifiedOn |-> DateOf(at)]))]
     ELSE /\ Len(clips) < MaxClips
          /\ clips' = Append(clips, clip)
          /\ now' = now
  /\ isDirty' = TRUE
  /\ clipDialogOpen' = FALSE
  /\ clipBeingEdited' = JNull
  /\ last' = [op |-> "saveClipFromDialog", existed |-> IndexOfId(Get(clip, "id")) > 0,
              clip |-> clip]
  /\ scen' = NoScen
  /\ UNCHANGED <<selectedClipIds, markInTime, markOutTime, currentTime, videoSourcePath,
                 currentProjectPath, event, nextId, procs, disk>>

\* A clip as the clip dialog hands it over.
DialogClip ==
  Obj([id |-> Str("d1"), name |-> Str("Foul"), inSeconds |-> Num(0), outSeconds |-> Num(1),
       createdOn |-> DateOf(0), modifiedOn |-> DateOf(0)])

\* The first clip added from marks as the clip dialog hands it back, edited.
EditedClip ==
  Obj([id |-> Str(GenIds[1]), name |-> Str("Edited"), inSeconds |-> Num(1), outSeconds |-> Num(2),
       createdOn |-> DateOf(0), modifiedOn |-> DateOf(0)])

\* ------------------------------------------------------------- saveProject
\* event.officiatingCrew.length === 0
LengthIsZero(v) == (v.t = "array" /\ Len(v.a) = 0) \/ (v.t = "string" /\ v.s = "")

\* The validation at the head of saveProject: "ok", or the message it alerts.
SaveCheck ==
  IF videoSourcePath = NullPath THEN "noVideo"
  ELSE IF ~Truthy(event) THEN "noEvent"
  ELSE IF ~Truthy(Get(event, "date")) THEN "noDate"
  ELSE IF ~Truthy(Get(event, "officiatingCrew")) \/ LengthIsZero(Get(event, "officiatingCrew"))
       THEN "noCrew"
  ELSE "ok"

\* What saveProject closed over when it was invoked.
Closure == Obj([clips |-> Arr(clips), event |-> event, videoSource |-> Str(videoSourcePath),
                projectPath |-> Str(currentProjectPath)])

\* A ProjectData object that carries the version of the older format.
ProjectData_OldVersion(c, at) ==
  Obj([version |-> Str("1.0.0"),
       appVersion |-> Str("1.0.0"),
       created |-> Str(ToISOString(at)),
       modified |-> Str(ToISOString(at)),
       videoSource |-> Obj([path |-> Get(c, "videoSource")]),
       event |-> Spread(Get(c, "event"),
                        Obj([date |-> AsDate(Get(Get(c, "event"), "date")),
                             createdOn |-> AsDate(Get(Get(c, "event"), "createdOn")),
                             modifiedOn |-> AsDate(Get(Get(c, "event"), "modifiedOn"))])),
       clips |-> Get(c, "clips")])

\* The ProjectData object built from a closure at instant at.
ProjectData(c, at) ==
  Obj([version |-> Str(PROJECT_FILE_VERSION),
       appVersion |-> Str("1.0.0"),
       created |-> Str(ToISOString(at)),
       modified |-> Str(ToISOString(at)),
       videoSource |-> Obj([path |-> Get(c, "videoSource")]),
       event |-> Spread(Get(c, "event"),
                        Obj([date |-> AsDate(Get(Get(c, "event"), "date")),
                             createdOn |-> AsDate(Get(Get(c, "event"), "createdOn")),
                             modifiedOn |-> AsDate(Get(Get(c, "event"), "modifiedOn"))])),
       clips |-> Get(c, "clips")])

\* History: the properties of v that are defined, those in stamps as the Date
\* of their instant.
Stamped(v, stamps) ==
  Obj([k \in {j \in DOMAIN Props(v) : v.o[j].t # "undefined"} |->
         IF k \in stamps THEN AsDate(v.o[k]) ELSE v.o[k]])

\* History: the clips and the event a save was invoked with.
Original(c) ==
  Obj([clips |-> Arr([i \in 1..Len(Get(c, "clips").a) |->
                        Stamped(Get(c, "clips").a[i], {"createdOn", "modifiedOn"})]),
       event |-> Stamped(Get(c, "event"), {"date", "createdOn", "modifiedOn"})])

\* The call of writeProject(savePath, JSON.stringify(projectData, null, 2)).
Writing(savePath, c, at) ==
  [kind |-> "save", pc |-> "write", path |-> savePath, data |-> ToJSON(ProjectData(c, at)),
   closedPath |-> Get(c, "projectPath").s, orig |-> Original(c)]

\* Does saveProject, invoked now, go on to the dialog or the write?
SaveGoesOn == SaveCheck = "ok"

\* A save that asks for a location every time.
NeedsDialog_Always == TRUE

\* let savePath = currentProjectPath; if (!savePath)
NeedsDialog == currentProjectPath = NullPath

\* A save that clears the dirty flag whatever the write reported.
DirtyAfterWrite_Always(success) == FALSE

\* if (result.success) setIsDirty(false)
DirtyAfterWrite(success) == IF success THEN FALSE ELSE isDirty

SaveStart(p, at) ==
  /\ FreeSlot(p)
  /\ at \in Instants
  /\ IF ~SaveGoesOn
     THEN /\ procs' = procs
          /\ now' = now
          /\ last' = [op |-> "saveStart", p |-> p, out |-> SaveCheck]
     ELSE IF ~NeedsDialog
     THEN /\ now' = at
          /\ procs' = [procs EXCEPT ![p] = Writing(currentProjectPath, Closure, at)]
          /\ last' = [op |-> "saveStart", p |-> p, out |-> "writing"]
     ELSE /\ procs' = [procs EXCEPT ![p] = [kind |-> "save", pc |-> "dialog",
                                            path |-> NullPath, data |-> Closure,
                                            closedPath |-> currentProjectPath,
                                            orig |-> JNull]]
          /\ now' = now
          /\ last' = [op |-> "saveStart", p |-> p, out |-> "asking"]
  /\ scen' = NoScen
  /\ UNCHANGED <<store, nextId, disk>>

\* saveProject() of the dialog collaborator resolves: a path, or null on cancel.
\* A save that builds its document from the store as it is when the dialog
\* returns.
SaveDialogReturn_Fresh(p, savePath, at) ==
  /\ AtPc(p, "save", "dialog")
  /\ at \in Instants
  /\ IF savePath = NullPath
     THEN /\ procs' = [procs EXCEPT ![p] = Idle]
          /\ last' = [op |-> "saveDialog", p |-> p, out |-> "canceled"]
          /\ UNCHANGED <<store, now>>
     ELSE /\ currentProjectPath' = savePath
          /\ now' = at
          /\ procs' = [procs EXCEPT ![p] = Writing(savePath, Closure, at)]
          /\ last' = [op |-> "saveDialog", p |-> p, out |-> "writing"]
          /\ UNCHANGED <<clips, selectedClipIds, markInTime, markOutTime, currentTime,
                         videoSourcePath, isDirty, event, clipDialogOpen, clipBeingEdited>>
  /\ scen' = NoScen
  /\ UNCHANGED <<nextId, disk>>

SaveDialogReturn(p, savePath, at) ==
  /\ AtPc(p, "save", "dialog")
  /\ at \in Instants
  /\ IF savePath = NullPath
     THEN /\ procs' = [procs EXCEPT ![p] = Idle]
          /\ last' = [op |-> "saveDialog", p |-> p, out |-> "canceled"]
          /\ UNCHANGED <<store, now>>
     ELSE /\ currentProjectPath' = savePath
          /\ now' = at
          /\ procs' = [procs EXCEPT ![p] = Writing(savePath, procs[p].data, at)]
          /\ last' = [op |-> "saveDialog", p |-> p, out |-> "writing"]
          /\ UNCHANGED <<clips, selectedClipIds, markInTime, markOutTime, currentTime,
                         videoSourcePath, isDirty, event, clipDialogOpen, clipBeingEdited>>
  /\ scen' = NoScen
  /\ UNCHANGED <<nextId, disk>>

\* writeProject() resolves with result.success = success.  A successful
\* write leaves the text in the file; a failed one leaves the file as it was.
SaveWriteReturn(p, success) ==
  /\ AtPc(p, "save", "write")
  /\ procs' = [procs EXCEPT ![p] = Idle]
  /\ isDirty' = DirtyAfterWrite(success)
  /\ disk' = IF success
             THEN [disk EXCEPT ![procs[p].path] = Written(procs[p].data, procs[p].orig)]
             ELSE disk
  /\ last' = [op |-> "saveWrite", p |-> p, out |-> IF success THEN "saved" ELSE "writeFailed"]
  /\ scen' = NoScen
  /\ UNCHANGED <<clips, selectedClipIds, markInTime, markOutTime, currentTime,
                 videoSourcePath, currentProjectPath, event, clipDialogOpen,
                 clipBeingEdited, now, nextId>>

\* An awaited collaborator call of saveProject rejects; the catch block reports it.
SaveReject(p) ==
  /\ procs[p].kind = "save"
  /\ procs' = [procs EXCEPT ![p] = Idle]
  /\ last' = [op |-> "saveReject", p |-> p, out |-> "threw"]
  /\ scen' = NoScen
  /\ UNCHANGED <<store, now, nextId, disk>>

\* ------------------------------------------------- isValidProjectData alone
\* An object with the properties of r that are not undefined.
ObjOf(r) == Obj([k \in {j \in DOMAIN r : r[j].t # "undefined"} |-> r[k]])

\* Values in the place of a clip: well formed ones (the second with its out
\* before its in and a property no check names) and ones short of a field.
ClipCandidates ==
  {DocClip("c1", "Travel", 0, 2, 0),
   Obj([id |-> Str("c2"), name |-> Str(""), inSeconds |-> Num(2), outSeconds |-> Num(0),
        tags |-> Num(7)]),
   Obj([name |-> Str("x"), inSeconds |-> Num(0), outSeconds |-> Num(1)]),
   Obj([id |-> Num(1), name |-> Str("x"), inSeconds |-> Num(0), outSeconds |-> Num(1)]),
   Obj([id |-> Str("c3"), name |-> JNull, inSeconds |-> Num(0), outSeconds |-> Num(1)]),
   Obj([id |-> Str("c3"), name |-> Str("x"), inSeconds |-> Str("0"), outSeconds |-> Num(1)]),
   Obj([id |-> Str("c3"), name |-> Str("x"), inSeconds |-> Num(0)]),
   JNull, Num(3), Str("clip"), Arr(<<>>)}

\* Values in the place of the clips array.
ClipsCandidates ==
  {Arr(<<>>), Undef, JNull, Str("[]"), Obj(<<>>)}
    \cup {Arr(<<c>>) : c \in ClipCandidates}
    \cup {Arr(<<DocClip("c1", "Travel", 0, 2, 0), c>>) : c \in ClipCandidates}

\* Values in the place of videoSource.
SourceCandidates ==
  {Obj([path |-> Str("v.mp4")]), Obj([path |-> Str(""), size |-> Num(1)]),
   Obj([path |-> Num(1)]), Obj(<<>>), JNull, Undef, Str("v.mp4"), Arr(<<>>)}

\* Values in the places of version, appVersion, created and modified.
HeaderCandidates ==
  {[version |-> ver, appVersion |-> app, created |-> cre, modified |-> mod] :
     ver \in {Str("9"), Num(2), Undef},
     app \in {Str("1.0.0"), JNull},
     cre \in {Str(ToISOString(0)), Undef},
     mod \in {Str("yesterday"), Bool(FALSE)}}

Candidate(h, vs, cl, ev) ==
  ObjOf([version |-> h.version, appVersion |-> h.appVersion, created |-> h.created,
         modified |-> h.modified, videoSource |-> vs, clips |-> cl, event |-> ev])

\* What JSON.parse can hand to isValidProjectData: values that are no
\* documents, and documents with every header over every videoSource and
\* with every videoSource over every clips value.
Candidates ==
  {JNull, Num(1), Str("{}"), Bool(TRUE), Arr(<<>>), Obj(<<>>)}
    \cup {Candidate(h, vs, Arr(<<>>), Undef) :
            h \in HeaderCandidates, vs \in SourceCandidates}
    \cup {Candidate(h, vs, cl, Num(5)) :
            h \in {g \in HeaderCandidates : \A k \in DOMAIN g : g[k].t = "string"},
            vs \in SourceCandidates, cl \in ClipsCandidates}

\* A call of isValidProjectData(data).
Validate(data) ==
  /\ last' = [op |-> "isValidProjectData", arg |-> data, out |-> isValidProjectData(data)]
  /\ scen' = NoScen
  /\ UNCHANGED <<store, now, nextId, procs, disk>>

\* ------------------------------------------------ clipsOverlap, sortClipsByTime
\* A clip with the fields the two functions read.
SpanClip(id, inS, outS) ==
  Obj([id |-> Str(id), name |-> Str(id), inSeconds |-> Num(inS), outSeconds |-> Num(outS)])

\* An overlap test that counts touching clips.
clipsOverlap_Closed(clip1, clip2) ==
  /\ Get(clip1, "inSeconds").n <= Get(clip2, "outSeconds").n
  /\ Get(clip2, "inSeconds").n <= Get(clip1, "outSeconds").n

clipsOverlap(clip1, clip2) ==
  /\ Get(clip1, "inSeconds").n < Get(clip2, "outSeconds").n
  /\ Get(clip2, "inSeconds").n < Get(clip1, "outSeconds").n

\* The clips clipsOverlap is called with: every pair of times, in any order.
OverlapInputs(id) == {SpanClip(id, inS, outS) : inS \in 0..MaxSpan, outS \in 0..MaxSpan}

\* A call of clipsOverlap(clip1, clip2).
Overlap(clip1, clip2) ==
  /\ last' = [op |-> "clipsOverlap", clip1 |-> clip1, clip2 |-> clip2,
              out |-> clipsOverlap(clip1, clip2)]
  /\ scen' = NoScen
  /\ UNCHANGED <<store, now, nextId, procs, disk>>

\* a.inSeconds - b.inSeconds, the comparator of the sort.
CompareByTime(a, b) == Get(a, "inSeconds").n - Get(b, "inSeconds").n

\* An insertion that puts a clip before the clips that start when it does.
InsertByTime_BeforeEqual(sorted, clip) ==
  LET k == Cardinality({i \in 1..Len(sorted) : CompareByTime(sorted[i], clip) < 0})
  IN SubSeq(sorted, 1, k) \o <<clip>> \o SubSeq(sorted, k + 1, Len(sorted))

\* Array.prototype.sort is stable: a clip goes after every clip of the sorted
\* prefix that the comparator does not put after it.
InsertByTime(sorted, clip) ==
  LET k == Cardinality({i \in 1..Len(sorted) : CompareByTime(sorted[i], clip) <= 0})
  IN SubSeq(sorted, 1, k) \o <<clip>> \o SubSeq(sorted, k + 1, Len(sorted))

RECURSIVE SortByTime(_)
SortByTime(array) ==
  IF array = <<>> THEN <<>>
  ELSE InsertByTime(SortByTime(SubSeq(array, 1, Len(array) - 1)), array[Len(array)])

\* [...clips]: the sort works on a copy, so the argument keeps its order.
ArgumentAfterSort(array) == array

sortClipsByTime(array) == SortByTime(array)

\* The arrays sortClipsByTime is called with: clips told apart by their ids,
\* several of which may start at the same time.
\* (SortInput builds the array whose i-th clip starts at starts[i].)
SortInput(starts) ==
  [i \in 1..Len(starts) |-> SpanClip(ToString(i), starts[i], starts[i] + 1)]
SortInputs == {SortInput(starts) : starts \in UNION {[1..m -> Times] : m \in 0..MaxSort}}

\* A call of sortClipsByTime(array).
SortClips(array) ==
  /\ last' = [op |-> "sortClipsByTime", arg |-> array, argAfter |-> ArgumentAfterSort(array),
              out |-> sortClipsByTime(array)]
  /\ scen' = NoScen
  /\ UNCHANGED <<store, now, nextId, procs, disk>>

\* --------------------------------------------------------------------- Next
Next ==
  \/ \E t \in Times : SetCurrentTime(t)
  \/ \E t \in Marks : MarkIn(t)
  \/ \E t \in Marks : MarkOut(t)
  \/ AddClipFromMarks
  \/ ClearMarks
  \/ \E i \in 1..MaxClips : handleSelect(i)
  \/ LoadStart(1)
  \/ \E f \in {"ext", "text", NullPath} : LoadDialogReturn(1, f)
  \/ \E ok \in BOOLEAN : LoadReadReturn(1, ok)
  \/ \E b \in BOOLEAN : LoadExistsReturn(1, b)
  \/ LoadReject(1)

Spec == Init /\ [][Next]_vars

\* Persistence: edits of the source, the event and the clips interleaved with
\* the awaited steps of one saveProject or loadProject call at a time, all
\* within one reading of the clock.
NextPersist ==
  \/ \E v \in VideoPaths : AddSource(v)
  \/ \E u \in EventUpdates : UpdateEvent(u, now)
  \/ SaveClipFromDialog(DialogClip, now)
  \/ SaveStart(1, now)
  \/ \E f \in ProjectPaths \cup {NullPath} : SaveDialogReturn(1, f, now)
  \/ \E b \in BOOLEAN : SaveWriteReturn(1, b)
  \/ SaveReject(1)
  \/ LoadStart(1)
  \/ \E f \in {"p.json", "ext", NullPath} : LoadDialogReturn(1, f)
  \/ \E ok \in BOOLEAN : LoadReadReturn(1, ok)
  \/ \E b \in BOOLEAN : LoadExistsReturn(1, b)
  \/ LoadReject(1)

SpecPersist == Init /\ [][NextPersist]_vars

\* Loading: every file the open dialog can name, loaded into a project whose
\* marks, clips and selection are being edited.
NextLoad ==
  \/ \E t \in 0..1 : MarkIn(t)
  \/ \E t \in 0..1 : MarkOut(t)
  \/ AddClipFromMarks
  \/ \E i \in 1..MaxClips : handleSelect(i)
  \/ LoadStart(1)
  \/ \E f \in OpenPaths \cup {NullPath} : LoadDialogReturn(1, f)
  \/ \E ok \in BOOLEAN : LoadReadReturn(1, ok)
  \/ \E b \in BOOLEAN : LoadExistsReturn(1, b)
  \/ LoadReject(1)

SpecLoad == Init /\ [][NextLoad]_vars

\* The clip collection: clips added from marks and from the dialog, renamed,
\* given another id, deleted and selected, as the clock moves on.
NextRepo ==
  \/ MarkIn(0)
  \/ MarkOut(1)
  \/ AddClipFromMarks
  \/ \E at \in 0..MaxClock : SaveClipFromDialog(DialogClip, at)
  \/ \E id \in ClipIds, u \in ClipUpdates, at \in 0..MaxClock : UpdateClip(id, u, at)
  \/ \E id \in ClipIds : DeleteClip(id)
  \/ \E i \in 1..MaxClips : handleSelect(i)

SpecRepo == Init /\ [][NextRepo]_vars

\* The structural validator on its own, over the values a parse can give.
NextValid == \E data \in Candidates : Validate(data)

SpecValid == Init /\ [][NextValid]_vars

\* clipsOverlap on its own, over every pair of clips within the span.
NextOverlap == \E clip1 \in OverlapInputs("a"), clip2 \in OverlapInputs("b") : Overlap(clip1, clip2)

SpecOverlap == Init /\ [][NextOverlap]_vars

\* sortClipsByTime on its own.
NextSort == \E array \in SortInputs : SortClips(array)

SpecSort == Init /\ [][NextSort]_vars

\* Two persistence calls at a time: saveProject and loadProject started while
\* another call is suspended, in a project whose source and event are edited.
NextRace ==
  \/ \E v \in VideoPaths : AddSource(v)
  \/ UpdateEvent(FormEvent, now)
  \/ \E p \in Procs : SaveStart(p, now)
  \/ \E p \in Procs, f \in ProjectPaths \cup {NullPath} : SaveDialogReturn(p, f, now)
  \/ \E p \in Procs, b \in BOOLEAN : SaveWriteReturn(p, b)
  \/ \E p \in Procs : SaveReject(p)
  \/ \E p \in Procs : LoadStart(p)
  \/ \E p \in Procs, f \in {"ext", NullPath} : LoadDialogReturn(p, f)
  \/ \E p \in Procs, ok \in BOOLEAN : LoadReadReturn(p, ok)
  \/ \E p \in Procs, b \in BOOLEAN : LoadExistsReturn(p, b)
  \/ \E p \in Procs : LoadReject(p)

SpecRace == Init /\ [][NextRace]_vars

\* The clip dialog: opened for a new clip or on a listed clip, and saved with
\* a new clip or with the edited first clip, among clips added from marks and
\* deleted, as the clock moves on.
NextDialog ==
  \/ MarkIn(0)
  \/ MarkOut(1)
  \/ AddClipFromMarks
  \/ OpenClipDialog(Undef)
  \/ \E i \in 1..MaxClips : OpenClipDialogOn(i)
  \/ \E clip \in {DialogClip, EditedClip}, at \in 0..MaxClock : SaveClipFromDialog(clip, at)
  \/ \E id \in ClipIds : DeleteClip(id)

SpecDialog == Init /\ [][NextDialog]_vars

\* Termination: the calls of NextLive to the collaborators, each of which
\* returns (resolves or rejects) in the end.
Returns(p) ==
  \/ \E f \in ProjectPaths \cup {NullPath} : SaveDialogReturn(p, f, now)
  \/ \E b \in BOOLEAN : SaveWriteReturn(p, b)
  \/ SaveReject(p)
  \/ \E f \in {"bare", NullPath} : LoadDialogReturn(p, f)
  \/ \E ok \in BOOLEAN : LoadReadReturn(p, ok)
  \/ \E b \in BOOLEAN : LoadExistsReturn(p, b)
  \/ LoadReject(p)

NextLive ==
  \/ \E v \in VideoPaths : AddSource(v)
  \/ UpdateEvent(FormEvent, now)
  \/ \E p \in Procs : SaveStart(p, now)
  \/ \E p \in Procs : LoadStart(p)
  \/ \E p \in Procs : Returns(p)

SpecLive == Init /\ [][NextLive]_vars /\ \A p \in Procs : WF_vars(Returns(p))

\* The dirty flag: every operation that changes the clips, the event or the
\* source, applied to a project that a load has just marked clean.
NextDirty ==
  \/ MarkIn(0)
  \/ MarkOut(1)
  \/ AddClipFromMarks
  \/ SaveClipFromDialog(DialogClip, now)
  \/ \E id \in {"c1", "d1"} : UpdateClip(id, Renamed, now)
  \/ \E id \in {"c1", "d1"} : DeleteClip(id)
  \/ \E v \in VideoPaths : AddSource(v)
  \/ UpdateEvent(NameOnly, now)
  \/ LoadStart(1)
  \/ \E f \in {"ext", NullPath} : LoadDialogReturn(1, f)
  \/ \E ok \in BOOLEAN : LoadReadReturn(1, ok)
  \/ \E b \in BOOLEAN : LoadExistsReturn(1, b)
  \/ LoadReject(1)

SpecDirty == Init /\ [][NextDirty]_vars

\* The event: created and updated from the form and from partial updates as
\* the clock moves on, and replaced or removed by the load of a file.
NextEvent ==
  \/ \E u \in EventUpdates \cup {SportOnly}, at \in 0..MaxClock : UpdateEvent(u, at)
  \/ LoadStart(1)
  \/ \E f \in {"ext", "bare", NullPath} : LoadDialogReturn(1, f)
  \/ \E ok \in BOOLEAN : LoadReadReturn(1, ok)
  \/ \E b \in BOOLEAN : LoadExistsReturn(1, b)
  \/ LoadReject(1)

SpecEvent == Init /\ [][NextEvent]_vars

\* ================================================================ properties
\* Steps are told apart by last', the record of the operation that took them.

\* ---- mark state machine (Spec)

\* C1: in every reachable state, when both the in-mark and the out-mark are
\* set, markInTime <= markOutTime.
C1_MarksOrdered ==
  (markInTime # NULL /\ markOutTime # NULL) => markInTime <= markOutTime

\* Both marks set and apart, in a project that was loaded and then edited.
C1_Witness ==
  /\ markInTime # NULL /\ markOutTime # NULL /\ markInTime < markOutTime
  /\ currentProjectPath # NullPath
  /\ last.op = "markIn" /\ last.flag = FALSE

\* C2: for t1 < t2, from a state with no marks, markIn(t1); markOut(t2);
\* addClipFromMarks() adds exactly one clip, with inSeconds = t1 and
\* outSeconds = t2, and leaves both marks unset.
C2_MarkMarkAdd ==
  scen.stage = 3 =>
    /\ Len(clips) = Len(scen.clips0) + 1
    /\ SubSeq(clips, 1, Len(scen.clips0)) = scen.clips0
    /\ Get(clips[Len(clips)], "inSeconds") = Num(scen.t1)
    /\ Get(clips[Len(clips)], "outSeconds") = Num(scen.t2)
    /\ markInTime = NULL
    /\ markOutTime = NULL

\* The three calls have run on a collection that already held a clip.
C2_Witness == scen.stage = 3 /\ scen.clips0 # <<>> /\ scen.t1 > 0

\* C3: markOut(t) sets the out-mark to t; an in-mark later than t is lowered
\* to t, any other in-mark is left as it was; so markIn(t1); markOut(t2) with
\* t1 > t2 ends with both marks at t2.
C3_MarkOut ==
  [][/\ last'.op = "markOut" =>
          /\ markOutTime' = last'.t
          /\ IF markInTime # NULL /\ last'.t < markInTime
             THEN markInTime' = last'.t
             ELSE markInTime' = markInTime
     /\ (last.op = "markIn" /\ last'.op = "markOut" /\ last.t > last'.t) =>
          (markInTime' = last'.t /\ markOutTime' = last'.t)]_vars

\* markOut has just lowered the in-mark set by the markIn before it.
C3_Witness ==
  /\ last.op = "markOut" /\ last.flag
  /\ markInTime = last.t /\ markOutTime = last.t /\ last.t < MaxTime

\* C4: markIn(t) sets the in-mark to t; an out-mark earlier than t is raised
\* to t, any other out-mark is left as it was; so markOut(t2); markIn(t1) with
\* t1 > t2 ends with both marks at t1.
C4_MarkIn ==
  [][/\ last'.op = "markIn" =>
          /\ markInTime' = last'.t
          /\ IF markOutTime # NULL /\ last'.t > markOutTime
             THEN markOutTime' = last'.t
             ELSE markOutTime' = markOutTime
     /\ (last.op = "markOut" /\ last'.op = "markIn" /\ last'.t > last.t) =>
          (markInTime' = last'.t /\ markOutTime' = last'.t)]_vars

\* markIn has just raised the out-mark.
C4_Witness ==
  /\ last.op = "markIn" /\ last.flag
  /\ markInTime = last.t /\ markOutTime = last.t /\ last.t > 0

\* C5: addClipFromMarks() with no marks, one mark, or both marks equal adds
\* no clip and leaves the marks, the selection, the event, both paths and the
\* dirty flag as they were.
C5_AddNoOp ==
  [][(/\ last'.op = "addClipFromMarks"
      /\ (markInTime = NULL \/ markOutTime = NULL \/ markOutTime = markInTime)) =>
        /\ clips' = clips
        /\ markInTime' = markInTime
        /\ markOutTime' = markOutTime
        /\ selectedClipIds' = selectedClipIds
        /\ event' = event
        /\ videoSourcePath' = videoSourcePath
        /\ currentProjectPath' = currentProjectPath
        /\ isDirty' = isDirty]_vars

\* addClipFromMarks has returned early on equal marks, in a dirty project
\* that has clips, a selection and an event.
C5_Witness ==
  /\ last.op = "addClipFromMarks" /\ ~last.flag
  /\ markInTime # NULL /\ markInTime = markOutTime
  /\ clips # <<>> /\ selectedClipIds # {} /\ event # JNull /\ isDirty

\* C6: addClipFromMarks() with the out-mark after the in-mark and n clips in
\* the collection appends one clip behind the n existing ones, named
\* "Clip {n+1}", with an id no existing clip has and createdOn = modifiedOn =
\* the time of the call, and sets the dirty flag.
C6_AddSucceeds ==
  [][(/\ last'.op = "addClipFromMarks"
      /\ markInTime # NULL /\ markOutTime # NULL /\ markOutTime > markInTime) =>
        /\ Len(clips') = Len(clips) + 1
        /\ SubSeq(clips', 1, Len(clips)) = clips
        /\ Get(clips'[Len(clips')], "name") = Str(DefaultNames[Len(clips) + 1])
        /\ \A i \in 1..Len(clips) : Get(clips[i], "id") # Get(clips'[Len(clips')], "id")
        /\ Get(clips'[Len(clips')], "createdOn") = DateOf(now')
        /\ Get(clips'[Len(clips')], "modifiedOn") = Get(clips'[Len(clips')], "createdOn")
        /\ isDirty']_vars

\* A clip has just been added behind a loaded one, at a later clock reading.
C6_Witness ==
  /\ last.op = "addClipFromMarks" /\ last.flag
  /\ Len(clips) = 2 /\ Get(clips[1], "id") = Str("c1")
  /\ Get(clips[2], "name") = Str("Clip 2") /\ Get(clips[2], "createdOn") = DateOf(1)

\* C7: clearMarks() leaves both marks unset and creates no clip; the clips,
\* the selection, the event, both paths and the dirty flag are as they were.
C7_ClearMarks ==
  [][last'.op = "clearMarks" =>
        /\ markInTime' = NULL
        /\ markOutTime' = NULL
        /\ clips' = clips
        /\ selectedClipIds' = selectedClipIds
        /\ event' = event
        /\ videoSourcePath' = videoSourcePath
        /\ currentProjectPath' = currentProjectPath
        /\ isDirty' = isDirty]_vars

\* clearMarks has just dropped two marks in a dirty project with clips.
C7_Witness ==
  /\ last.op = "clearMarks" /\ last.flag
  /\ markInTime = NULL /\ markOutTime = NULL
  /\ clips # <<>> /\ selectedClipIds # {} /\ isDirty

\* ---- saveProject (SpecPersist)

\* The messages the validation at the head of saveProject alerts.
ValidationMessages == {"noVideo", "noEvent", "noDate", "noCrew"}

\* C8: saveProject calls no dialog, writes nothing and changes no state
\* unless the video source is known and the event has a date and an official
\* with a non-empty name; otherwise it only reports a validation message.
C8_SaveRequiresNamedOfficial ==
  [][LET crew == Get(event, "officiatingCrew")
         HasNamedOfficial ==
           /\ crew.t = "array"
           /\ \E i \in 1..Len(crew.a) :
                Get(crew.a[i], "name").t = "string" /\ Get(crew.a[i], "name").s # ""
         Required ==
           /\ videoSourcePath # NullPath
           /\ Truthy(event)
           /\ Truthy(Get(event, "date"))
           /\ HasNamedOfficial
     IN (last'.op = "saveStart" /\ ~Required) =>
          /\ last'.out \in ValidationMessages
          /\ procs' = procs
          /\ store' = store
          /\ disk' = disk]_vars

\* C9: with a project path established saveProject goes to the write at that
\* path without asking the dialog; with none it asks the dialog, and a
\* cancelled dialog ends the save with no write and every store field unchanged.
C9_SavePath ==
  [][/\ (last'.op = "saveStart" /\ SaveGoesOn /\ currentProjectPath # NullPath) =>
          /\ procs'[last'.p].pc = "write"
          /\ procs'[last'.p].path = currentProjectPath
          /\ store' = store
     /\ (last'.op = "saveStart" /\ SaveGoesOn /\ currentProjectPath = NullPath) =>
          /\ procs'[last'.p].pc = "dialog"
          /\ store' = store
          /\ disk' = disk
     /\ (last'.op = "saveDialog" /\ last'.out = "canceled") =>
          /\ procs'[last'.p] = Idle
          /\ store' = store
          /\ disk' = disk]_vars

\* The save dialog has just been cancelled in a dirty project never saved.
C9_Witness ==
  /\ last.op = "saveDialog" /\ last.out = "canceled"
  /\ procs[last.p] = Idle
  /\ currentProjectPath = NullPath /\ isDirty /\ disk["p.json"] = NoFile

\* C10: a write reported successful clears the dirty flag; no step of a save
\* whose write was not reported successful changes the dirty flag.
C10_DirtyCleared ==
  [][/\ (last'.op = "saveWrite" /\ last'.out = "saved") => ~isDirty'
     /\ (\/ last'.op \in {"saveStart", "saveDialog", "saveReject"}
         \/ (last'.op = "saveWrite" /\ last'.out # "saved")) =>
          isDirty' = isDirty]_vars

\* A write to the path the dialog gave has just failed and the project is
\* still dirty.
C10_Witness ==
  /\ last.op = "saveWrite" /\ last.out = "writeFailed"
  /\ isDirty /\ currentProjectPath = "p.json" /\ disk["p.json"] = NoFile

\* C11: when the write of a save fails (writeProject reports failure or
\* throws), the store is as it was when the save was invoked: clips, event,
\* video source path and dirty flag unchanged, and the current project path
\* the one the save started with, also when the dialog gave the path.
C11_FailedWriteRestores ==
  [][(/\ last'.op \in {"saveWrite", "saveReject"}
      /\ last'.out \in {"writeFailed", "threw"}
      /\ procs[last'.p].pc = "write") =>
        /\ clips' = clips
        /\ event' = event
        /\ videoSourcePath' = videoSourcePath
        /\ isDirty' = isDirty
        /\ currentProjectPath' = procs[last'.p].closedPath]_vars

\* ---- loadProject (SpecLoad)

C13_VideoMissing ==
  [][/\ (last'.op = "loadExists" /\ ~last'.arg) =>
          /\ last'.out = "videoNotFound"
          /\ last'.ret = NullPath
          /\ procs'[last'.p] = Idle
          /\ store' = store
     /\ last'.op \in {"loadStart", "loadDialog", "loadRead"} => store' = store]_vars

\* A valid document whose video is gone has just been turned away from a
\* dirty project with clips, a mark and a selection.
C13_Witness ==
  /\ last.op = "loadExists" /\ ~last.arg /\ last.out = "videoNotFound"
  /\ isDirty /\ clips # <<>> /\ markOutTime # NULL /\ selectedClipIds # {}
  /\ videoSourcePath = "v.mp4"

\* C14: a load that ends at the dialog's cancel, at a failed read, at text
\* that is not JSON or at a value that is not a project document leaves
\* every store field as it was and returns no video path.
C14_LoadAborts ==
  [][/\ (last'.op = "loadDialog" /\ last'.arg = NullPath) =>
          /\ last'.ret = NullPath
          /\ procs'[last'.p] = Idle
          /\ store' = store
     /\ (/\ last'.op = "loadRead"
         /\ \/ ~last'.arg
            \/ FileAt(procs[last'.p].path).kind # "json"
            \/ ~isValidProjectData(FileAt(procs[last'.p].path).value)) =>
          /\ last'.out \in {"readFailed", "invalidJson", "invalidStructure"}
          /\ last'.ret = NullPath
          /\ procs'[last'.p] = Idle
          /\ store' = store]_vars

\* A JSON value that is not a project document has just been turned away
\* from a dirty project with clips, a mark, a selection and an event.
C14_Witness ==
  /\ last.op = "loadRead" /\ last.arg /\ last.out = "invalidStructure"
  /\ isDirty /\ clips # <<>> /\ markInTime # NULL /\ selectedClipIds # {}
  /\ event # JNull

\* C15: when fileExists reports the video as present the load commits: the
\* clips are the document's, the video source path the document's
\* videoSource.path, the project path the chosen file, the selection empty,
\* both marks unset, the dirty flag clear, the event the document's with
\* date, createdOn and modifiedOn as Dates of the instants written (no event
\* when the document has none), and the video source path is returned.
C15_LoadCommit ==
  [][(last'.op = "loadExists" /\ last'.arg) =>
        LET data == procs[last'.p].data
            docEvent == Get(data, "event")
            Stamps == {"date", "createdOn", "modifiedOn"}
        IN /\ clips' = Get(data, "clips").a
           /\ videoSourcePath' = Get(Get(data, "videoSource"), "path").s
           /\ currentProjectPath' = procs[last'.p].path
           /\ selectedClipIds' = {}
           /\ markInTime' = NULL
           /\ markOutTime' = NULL
           /\ isDirty' = FALSE
           /\ last'.ret = Get(Get(data, "videoSource"), "path").s
           /\ IF docEvent.t = "object"
              THEN /\ DOMAIN event'.o = DOMAIN docEvent.o \cup Stamps
                   /\ \A k \in DOMAIN docEvent.o \ Stamps : Get(event', k) = Get(docEvent, k)
                   /\ \A k \in Stamps \cap DOMAIN docEvent.o :
                        \E ms \in 0..(Len(IsoStrings) - 1) :
                          /\ Get(docEvent, k) = Str(ToISOString(ms))
                          /\ Get(event', k) = DateOf(ms)
              ELSE event' = JNull]_vars

\* A document with clips and an event has just replaced a project in which a
\* clip had been added from marks.
C15_Witness ==
  /\ last.op = "loadExists" /\ last.out = "loaded" /\ last.ret = "v.mp4"
  /\ currentProjectPath = "ext" /\ nextId > 1
  /\ Len(clips) = 1 /\ Get(event, "date") = DateOf(0) /\ ~isDirty

\* ---- save then load (SpecPersist)

\* C16: when a load commits a document that saveProject wrote, the clips
\* and the event are those the save was invoked with, field for field, and
\* the event's date, createdOn and modifiedOn and every clip's createdOn and
\* modifiedOn are Dates of the same instants.
C16_RoundTrip ==
  [][(/\ last'.op = "loadExists" /\ last'.arg
      /\ FileAt(procs[last'.p].path).orig # JNull
      /\ FileAt(procs[last'.p].path).value = procs[last'.p].data) =>
        LET orig == FileAt(procs[last'.p].path).orig
            clips0 == Get(orig, "clips").a
            event0 == Get(orig, "event")
            SameFields(a, b, stamps) ==
              /\ \A k \in DOMAIN Props(a) \cup DOMAIN Props(b) : Get(a, k) = Get(b, k)
              /\ \A k \in stamps : Get(a, k).t = "date"
        IN /\ Len(clips') = Len(clips0)
           /\ \A i \in 1..Len(clips0) :
                SameFields(clips'[i], clips0[i], {"createdOn", "modifiedOn"})
           /\ SameFields(event', event0, {"date", "createdOn", "modifiedOn"})]_vars

\* ---- isValidProjectData (SpecValid)

\* C17: isValidProjectData accepts a value exactly when it is a non-null
\* object with string version, appVersion, created and modified, a non-null
\* object videoSource with a string path, and an array clips whose elements
\* are all non-null objects with string id, string name, numeric inSeconds
\* and numeric outSeconds; nothing else is looked at.
C17_ValidatorExact ==
  last.op = "isValidProjectData" =>
    LET Has(v, k, type) == v.t = "object" /\ k \in DOMAIN v.o /\ v.o[k].t = type
        v == last.arg
    IN last.out <=>
         /\ \A k \in {"version", "appVersion", "created", "modified"} : Has(v, k, "string")
         /\ Has(v, "videoSource", "object")
         /\ Has(v.o["videoSource"], "path", "string")
         /\ Has(v, "clips", "array")
         /\ \A i \in 1..Len(v.o["clips"].a) :
              /\ Has(v.o["clips"].a[i], "id", "string")
              /\ Has(v.o["clips"].a[i], "name", "string")
              /\ Has(v.o["clips"].a[i], "inSeconds", "number")
              /\ Has(v.o["clips"].a[i], "outSeconds", "number")

\* A document is accepted whose version is not the supported one, whose
\* event is a number and whose second clip ends before it starts.
C17_Witness ==
  /\ last.op = "isValidProjectData" /\ last.out
  /\ Get(last.arg, "version") = Str("9")
  /\ Get(last.arg, "event") = Num(5)
  /\ Len(Get(last.arg, "clips").a) = 2
  /\ Get(Get(last.arg, "clips").a[2], "outSeconds") = Num(0)

\* ---- clip collection (SpecRepo)

\* C18: updateClip(id, partial) sets modifiedOn of every clip with that id
\* to the instant of the call, whatever partial holds.
C18_UpdateStampsModifiedOn ==
  [][last'.op = "updateClip" =>
       \A i \in 1..Len(clips) :
         Get(clips[i], "id") = Str(last'.id) =>
           Get(clips'[i], "modifiedOn") = DateOf(last'.at)]_vars

\* C19: updateClip(id, partial) keeps the number and order of the clips,
\* leaves every clip with another id as it was, and in a clip with that id
\* gives the fields named in partial their new values and leaves every field
\* but those and modifiedOn as it was.
C19_UpdateFrame ==
  [][last'.op = "updateClip" =>
       /\ Len(clips') = Len(clips)
       /\ \A i \in 1..Len(clips) :
            IF Get(clips[i], "id") = Str(last'.id)
            THEN /\ \A k \in DOMAIN last'.updates.o :
                      Get(clips'[i], k) = last'.updates.o[k]
                 /\ \A k \in (DOMAIN clips[i].o \cup DOMAIN clips'[i].o)
                               \ (DOMAIN last'.updates.o \cup {"modifiedOn"}) :
                      k \in DOMAIN clips'[i].o /\ Get(clips'[i], k) = Get(clips[i], k)
            ELSE clips'[i] = clips[i]]_vars

\* The first of two clips has just been renamed; it keeps its id and times,
\* and the clip behind it is one added from marks.
C19_Witness ==
  /\ last.op = "updateClip" /\ last.updates = Renamed /\ last.id = "d1"
  /\ Len(clips) = 2
  /\ Get(clips[1], "id") = Str("d1") /\ Get(clips[1], "name") = Str("Renamed")
  /\ Get(clips[1], "inSeconds") = Num(0) /\ Get(clips[1], "outSeconds") = Num(1)
  /\ Get(clips[2], "id") = Str("g1") /\ Get(clips[2], "name") = Str("Clip 2")

\* C20: deleteClip(id) takes every clip with that id out of the collection
\* and the id out of the selection in one step; afterwards no clip has the
\* id, the id is not selected, the other clips are all there in their old
\* order, and the dirty flag is set.
C20_DeleteClip ==
  [][last'.op = "deleteClip" =>
       /\ \A i \in 1..Len(clips') : Get(clips'[i], "id") # Str(last'.id)
       /\ last'.id \notin selectedClipIds'
       /\ \E keep \in SUBSET (1..Len(clips)) :
            /\ keep = {i \in 1..Len(clips) : Get(clips[i], "id") # Str(last'.id)}
            /\ Len(clips') = Cardinality(keep)
            /\ \A j \in 1..Len(clips') :
                 clips'[j] = clips[CHOOSE i \in keep :
                                     Cardinality({h \in keep : h <= i}) = j]
       /\ isDirty']_vars

\* Two clips with the same id, selected, have just been deleted together.
C20_Witness ==
  /\ last.op = "deleteClip" /\ last.flag /\ last.id = "d1" /\ last.removed = 2
  /\ clips = <<>> /\ selectedClipIds = {} /\ isDirty


\* ---- dirty flag (SpecDirty)
\* The clips, the event and the source as the file "ext" loads them.
LoadedFromExt ==
  /\ currentProjectPath = "ext"
  /\ clips = Get(ExternalFiles.ext.value, "clips").a
  /\ event = LoadedEvent(ExternalFiles.ext.value)

\* C21: every operation that changes the clips (addClipFromMarks when it adds,
\* updateClip, deleteClip, saveClipFromDialog), the event (updateEvent) or the
\* source path (addSource) leaves the dirty flag true.
C21_EditsSetDirty ==
  [][\/ /\ last'.op = "addClipFromMarks"
        /\ last'.flag
     \/ last'.op \in {"updateClip", "deleteClip", "saveClipFromDialog",
                      "updateEvent", "addSource"}
     => isDirty']_vars

\* addSource right after a load: nothing but the source differs from what the
\* load committed together with a clean flag, and the flag is set.
C21_Witness ==
  /\ last.op = "addSource"
  /\ LoadedFromExt
  /\ videoSourcePath = "a.mp4"
  /\ isDirty

\* ---- clip invariants (SpecLoad, SpecRepo)

\* C22: in every reachable state every clip of the collection starts before
\* it ends: inSeconds < outSeconds.
C22_ClipRange ==
  \A i \in 1..Len(clips) :
    /\ Get(clips[i], "inSeconds").t = "number"
    /\ Get(clips[i], "outSeconds").t = "number"
    /\ Get(clips[i], "inSeconds").n < Get(clips[i], "outSeconds").n

\* C23: no two clips of the collection have the same id, and no operation
\* but a delete or a load changes the id of a clip that is in the collection.
C23_IdsUniqueAndStable ==
  /\ [](\A i, j \in 1..Len(clips) :
          Get(clips[i], "id") = Get(clips[j], "id") => i = j)
  /\ [][last'.op \notin {"deleteClip", "loadStart", "loadDialog", "loadRead",
                          "loadExists", "loadReject"} =>
          /\ Len(clips') >= Len(clips)
          /\ \A i \in 1..Len(clips) : Get(clips'[i], "id") = Get(clips[i], "id")]_vars

\* C24: in every reachable state, a load included, createdOn and modifiedOn of
\* every clip are Dates and modifiedOn is not before createdOn.
C24_ClipStamps ==
  \A i \in 1..Len(clips) :
    /\ Get(clips[i], "createdOn").t = "date"
    /\ Get(clips[i], "modifiedOn").t = "date"
    /\ Get(clips[i], "createdOn").valid
    /\ Get(clips[i], "modifiedOn").valid
    /\ Get(clips[i], "modifiedOn").ms >= Get(clips[i], "createdOn").ms

\* ---- updateEvent (SpecEvent)

C26_UpdateCreatesEvent ==
  [][last'.op = "updateEvent" /\ ~last'.existed =>
       LET partial == last'.updates
           Field(k, default) == IF Get(partial, k) # Undef THEN Get(partial, k) ELSE default
       IN /\ event'.t = "object"
          /\ Get(event', "gender") = Field("gender", Str("boys"))
          /\ Get(event', "ageLevel") = Field("ageLevel", Str("Varsity"))
          /\ Get(event', "sport") = Field("sport", Str("basketball"))
          /\ Get(event', "officiatingCrew") = Field("officiatingCrew", Arr(<<>>))
          /\ \A k \in {"eventName", "location", "homeTeam", "awayTeam", "videoLink", "notes"} :
               Get(event', k) = Get(partial, k)
          /\ Get(partial, "date") # Undef => Get(event', "date") = Get(partial, "date")
          /\ Get(event', "createdOn") = DateOf(now')
          /\ Get(event', "modifiedOn") = DateOf(now')]_vars

\* At instant 1 a partial that names only the sport creates the event: the
\* other three defaults are filled in and both stamps are instant 1.
C26_Witness ==
  /\ last.op = "updateEvent"
  /\ ~last.existed
  /\ last.updates = SportOnly
  /\ Get(event, "sport") = Str("soccer")
  /\ Get(event, "gender") = Str("boys")
  /\ Get(event, "ageLevel") = Str("Varsity")
  /\ Get(event, "officiatingCrew") = Arr(<<>>)
  /\ Get(event, "createdOn") = DateOf(1)
  /\ Get(event, "modifiedOn") = DateOf(1)

\* ---- selectedClips (SpecRepo)

\* C27: selectedClips holds exactly the clips whose id is in the selection
\* set, each of them once, in the order of the clip collection, whatever the
\* order in which they were selected.
C27_SelectedClips ==
  LET chosen == {i \in 1..Len(clips) : Get(clips[i], "id") \in {Str(id) : id \in selectedClipIds}}
      Rank(i) == Cardinality({j \in chosen : j <= i})
  IN /\ Len(selectedClips) = Cardinality(chosen)
     /\ \A i \in chosen : selectedClips[Rank(i)] = clips[i]

\* Two different clips, the second selected before the first: selectedClips
\* lists them in collection order.
C27_Witness ==
  /\ Len(clips) = 2
  /\ clips[1] # clips[2]
  /\ last.op = "toggleClipSelection"
  /\ Str(last.id) = Get(clips[1], "id")
  /\ Get(clips[2], "id").s \in selectedClipIds \ {last.id}
  /\ last.id \in selectedClipIds
  /\ selectedClips = clips

\* ---- clipsOverlap (SpecOverlap)

\* C28: clipsOverlap(a, b) is true exactly when a.inSeconds < b.outSeconds and
\* b.inSeconds < a.outSeconds; clips that only touch (one ends where the other
\* starts) do not overlap; the answer is the same for (b, a).
C28_ClipsOverlap ==
  last.op = "clipsOverlap" =>
    LET aIn == Get(last.clip1, "inSeconds").n
        aOut == Get(last.clip1, "outSeconds").n
        bIn == Get(last.clip2, "inSeconds").n
        bOut == Get(last.clip2, "outSeconds").n
    IN /\ last.out = (aIn < bOut /\ bIn < aOut)
       /\ (aOut = bIn \/ bOut = aIn) => ~last.out
       /\ last.out = clipsOverlap(last.clip2, last.clip1)

\* The clip 0..1 against the clip 1..2: they touch and do not overlap.
C28_Witness ==
  /\ last.op = "clipsOverlap"
  /\ last.clip1 = SpanClip("a", 0, 1)
  /\ last.clip2 = SpanClip("b", 1, 2)
  /\ ~last.out

\* ---- sortClipsByTime (SpecSort)

\* C29: sortClipsByTime returns a new sequence that is a permutation of its
\* input, ascending by inSeconds, with clips of equal inSeconds in their
\* input order; the input keeps its order.
C29_SortClipsByTime ==
  last.op = "sortClipsByTime" =>
    LET input == last.arg
        output == last.out
        Count(seq, clip) == Cardinality({i \in 1..Len(seq) : seq[i] = clip})
        Start(clip) == Get(clip, "inSeconds").n
    IN /\ Len(output) = Len(input)
       /\ \A i \in 1..Len(input) : Count(output, input[i]) = Count(input, input[i])
       /\ \A i, j \in 1..Len(output) : i < j => Start(output[i]) <= Start(output[j])
       /\ \A i, j \in 1..Len(input) :
            i < j /\ Start(input[i]) = Start(input[j]) =>
              \E p, q \in 1..Len(output) : p < q /\ output[p] = input[i] /\ output[q] = input[j]
       /\ last.argAfter = input

\* Two clips that start at 1 followed by one that starts at 0: the last comes
\* first and the other two keep their order.
C29_Witness ==
  /\ last.op = "sortClipsByTime"
  /\ last.arg = <<SpanClip("1", 1, 2), SpanClip("2", 1, 2), SpanClip("3", 0, 1)>>
  /\ last.out = <<SpanClip("3", 0, 1), SpanClip("1", 1, 2), SpanClip("2", 1, 2)>>
  /\ last.argAfter = last.arg

\* ---- concurrent persistence calls (SpecRace)

\* C30: persistence calls are not serialized.  While a saveProject or
\* loadProject call is suspended at an awaited step, a loadProject call can
\* start, so a state with a saveProject call and a loadProject call suspended
\* at once is reachable (C30_Witness).
C30_NotSerialized ==
  (\E p, q \in Procs : procs[p] # Idle /\ procs[q] = Idle) =>
    \E q \in Procs : ENABLED LoadStart(q)

\* A saveProject call awaiting the write and a loadProject call awaiting the
\* read, both suspended.
C30_Witness ==
  \E p, q \in Procs :
    /\ AtPc(p, "save", "write")
    /\ AtPc(q, "load", "read")

\* ---- termination (SpecLive)

\* C31: when every call to the dialog and file I/O collaborators returns in
\* the end, every started saveProject and loadProject call finishes; until it
\* does, nothing but the return of its own awaited call changes it (no other
\* operation cancels it).
C31_CallsFinish ==
  /\ \A p \in Procs : (procs[p] # Idle) ~> (procs[p] = Idle)
  /\ [][\A p \in Procs :
          procs[p] # Idle /\ procs'[p] # procs[p] =>
            /\ last'.op \in {"saveDialog", "saveWrite", "saveReject",
                              "loadDialog", "loadRead", "loadExists", "loadReject"}
            /\ last'.p = p]_vars

\* A loadProject call has just finished by committing while a saveProject
\* call started before it is still awaiting its write.
C31_Witness ==
  /\ last.op = "loadExists" /\ last.out = "loaded" /\ last.p = 2
  /\ procs[2] = Idle
  /\ AtPc(1, "save", "write")

\* ---- order of the load checks (SpecLoad)

\* C32: loadProject checks the read, the parse, the structure and the version
\* in that order and reports the first failure only: a failed read is a read
\* failure, text that is not JSON a corrupted file, a structurally invalid
\* document an invalid structure whatever its version, a valid document of
\* another version an unsupported version; fileExists is called only for a
\* document that passed the structure and the version check.
C32_CheckOrder ==
  /\ [][last'.op = "loadRead" =>
          LET file == FileAt(procs[last'.p].path)
              failure ==
                IF ~last'.arg THEN "readFailed"
                ELSE IF file.kind = "text" THEN "invalidJson"
                ELSE IF file.kind = "json" /\ ~isValidProjectData(file.value)
                     THEN "invalidStructure"
                ELSE IF file.kind = "json"
                        /\ Get(file.value, "version") # Str(PROJECT_FILE_VERSION)
                     THEN "unsupportedVersion"
                ELSE "none"
          IN /\ failure # "none" => last'.out = failure /\ procs'[last'.p] = Idle
             /\ failure = "none" /\ file.kind = "json" =>
                  /\ last'.out = "pending"
                  /\ procs'[last'.p].kind = "load"
                  /\ procs'[last'.p].pc = "exists"]_vars
  /\ [](\A p \in Procs :
          AtPc(p, "load", "exists") =>
            /\ isValidProjectData(procs[p].data)
            /\ Get(procs[p].data, "version") = Str(PROJECT_FILE_VERSION))

\* Every structurally invalid document the dialog can name is also of an
\* unsupported version, and the load of one has just ended with the
\* invalid-structure error, fileExists not called.
C32_Witness ==
  /\ last.op = "loadRead" /\ last.arg /\ last.out = "invalidStructure"
  /\ procs[last.p] = Idle
  /\ \E path \in OpenPaths :
       FileAt(path).kind = "json" /\ ~isValidProjectData(FileAt(path).value)
  /\ \A path \in OpenPaths :
       FileAt(path).kind = "json" /\ ~isValidProjectData(FileAt(path).value) =>
         ~isSupportedVersion(Get(FileAt(path).value, "version"))

\* C33: when readProject reports success the load does not report a read
\* failure; content that is not JSON text, empty content included, gets the
\* corrupted-file (invalid JSON) error.
C33_ReadSucceeded ==
  [][last'.op = "loadRead" /\ last'.arg =>
       /\ last'.out # "readFailed"
       /\ FileAt(procs[last'.p].path).kind \in {"text", "empty"} =>
            last'.out = "invalidJson"]_vars

\* ---- written documents (SpecPersist)

C35_CleanMeansSaved ==
  (/\ ~isDirty
   /\ currentProjectPath # NullPath
   /\ \A p \in Procs : procs[p] = Idle) =>
     LET doc == FileAt(currentProjectPath).value
         inMemory == ToJSON(ProjectData(Closure, 0))
     IN /\ FileAt(currentProjectPath).kind = "json"
        /\ Get(doc, "clips") = Get(inMemory, "clips")
        /\ Get(doc, "videoSource") = Get(inMemory, "videoSource")
        /\ Get(doc, "event") = IF Truthy(event) THEN Get(inMemory, "event") ELSE Undef

\* ---- what a save writes (SpecRace)

\* C36: the document a saveProject call writes holds the clips, the event and
\* the video source path of the moment the call was made.  The call takes
\* them when it starts, builds the document from what it took (after the
\* dialog, when there is one), writes that document, and no edit and no step
\* of another call in between changes what it holds.
C36_WritesWhatItClosedOver ==
  [][LET Stamps == {"date", "createdOn", "modifiedOn"}
         Holds(doc, clipsThen, eventThen, sourceThen) ==
           /\ Get(doc, "clips") = ToJSON(clipsThen)
           /\ Get(doc, "event") = ToJSON(Stamped(eventThen, Stamps))
           /\ Get(Get(doc, "videoSource"), "path") = sourceThen
     IN /\ (last'.op = "saveStart" /\ last'.out = "writing") =>
             Holds(procs'[last'.p].data, Arr(clips), event, Str(videoSourcePath))
        /\ (last'.op = "saveStart" /\ last'.out = "asking") =>
             /\ Get(procs'[last'.p].data, "clips") = Arr(clips)
             /\ Get(procs'[last'.p].data, "event") = event
             /\ Get(procs'[last'.p].data, "videoSource") = Str(videoSourcePath)
        /\ (last'.op = "saveDialog" /\ last'.out = "writing") =>
             Holds(procs'[last'.p].data, Get(procs[last'.p].data, "clips"),
                   Get(procs[last'.p].data, "event"),
                   Get(procs[last'.p].data, "videoSource"))
        /\ (last'.op = "saveWrite" /\ last'.out = "saved") =>
             /\ disk'[procs[last'.p].path].kind = "json"
             /\ disk'[procs[last'.p].path].value = procs[last'.p].data
        /\ \A p \in Procs :
             (/\ procs[p].kind = "save"
              /\ ~(last'.op \in {"saveDialog", "saveWrite", "saveReject"} /\ last'.p = p)) =>
               procs'[p] = procs[p]]_vars

\* A save invoked in a project without clips, with the source a.mp4, has
\* just written p.json; the load of another project committed while it was
\* suspended, and the written document has none of what the load brought.
C36_Witness ==
  /\ last.op = "saveWrite" /\ last.out = "saved"
  /\ disk["ext"] = ExternalFiles.ext
  /\ disk["p.json"].orig # JNull
  /\ Get(disk["p.json"].value, "clips") = Arr(<<>>)
  /\ Get(Get(disk["p.json"].value, "videoSource"), "path") = Str("a.mp4")
  /\ currentProjectPath = "ext"
  /\ clips # <<>>
  /\ videoSourcePath = "v.mp4"

\* ---- selection (SpecRepo)

\* C37: when toggleClipSelection is only ever called with the id of a clip
\* that is in the collection, every selected id is the id of a clip in the
\* collection, in every reachable state.
C37_NoDanglingSelection ==
  \A id \in selectedClipIds : \E i \in 1..Len(clips) : Get(clips[i], "id") = Str(id)

\* ---- saveClipFromDialog (SpecDialog)

\* C38: saveClipFromDialog(clip) puts the given clip, with modifiedOn set to
\* the instant of the call, in the place of the clip that has its id, the
\* other clips and their number unchanged; when no clip has the id it appends
\* the clip as given.  Either way the dirty flag is set, the dialog is closed
\* and no clip is being edited.
C38_SaveClipFromDialog ==
  [][last'.op = "saveClipFromDialog" =>
       LET clip == last'.clip
           same == {i \in 1..Len(clips) : Get(clips[i], "id") = Get(clip, "id")}
       IN /\ IF same # {}
             THEN \E k \in same :
                    /\ \A i \in same : k <= i
                    /\ Len(clips') = Len(clips)
                    /\ \A i \in 1..Len(clips) \ {k} : clips'[i] = clips[i]
                    /\ Get(clips'[k], "modifiedOn") = DateOf(now')
                    /\ \A f \in (DOMAIN clip.o \cup DOMAIN clips'[k].o) \ {"modifiedOn"} :
                         Get(clips'[k], f) = Get(clip, f)
             ELSE clips' = Append(clips, clip)
          /\ isDirty'
          /\ ~clipDialogOpen'
          /\ clipBeingEdited' = JNull]_vars

\* At instant 1 the edited clip has taken the place of the first of two
\* clips, stamped; the second clip is in its place and the dialog is closed.
C38_Witness ==
  /\ last.op = "saveClipFromDialog" /\ last.existed /\ last.clip = EditedClip
  /\ Len(clips) = 2
  /\ clips[1] = Spread(EditedClip, Obj([modifiedOn |-> DateOf(1)]))
  /\ Get(clips[2], "id") = Str(GenIds[2])
  /\ isDirty /\ ~clipDialogOpen /\ clipBeingEdited = JNull

\* ---- frame of the marks and the selection (SpecLoad)

\* C39: markIn and markOut leave the clips, the selection, the event, the
\* video source path, the project path and the dirty flag as they were;
\* toggleClipSelection(id) leaves the clips, the marks, the event, both paths
\* and the dirty flag as they were and changes the selection in the
\* membership of id only.
C39_MarksAndSelectionFrame ==
  [][/\ last'.op \in {"markIn", "markOut"} =>
          UNCHANGED <<clips, selectedClipIds, event, videoSourcePath,
                      currentProjectPath, isDirty>>
     /\ last'.op = "toggleClipSelection" =>
          /\ UNCHANGED <<clips, markInTime, markOutTime, event, videoSourcePath,
                         currentProjectPath, isDirty>>
          /\ selectedClipIds' \ {last'.id} = selectedClipIds \ {last'.id}
          /\ (last'.id \in selectedClipIds') # (last'.id \in selectedClipIds)]_vars

\* In a loaded project with an event, a second clip, a mark and unsaved
\* changes, a second clip has just been selected next to the first.
C39_Witness ==
  /\ last.op = "toggleClipSelection"
  /\ last.id \in selectedClipIds
  /\ Cardinality(selectedClipIds) = 2
  /\ Len(clips) = 2
  /\ markInTime # NULL
  /\ isDirty
  /\ event # JNull
  /\ currentProjectPath = "ext"
====
